---- MODULE Spec2Model ----
(***************************************************************************)
(* Fort Lee percent bot (src/index.js): the data.json store, the           *)
(* InteractionCreate handler (buttons, /call, /percent, /resetpercent,     *)
(* /leaderboard, /rollcall) and calcStats.                                 *)
(*                                                                         *)
(* A handler is an async function on node's single-threaded event loop:    *)
(* the code between two awaits runs to completion, so each action below is *)
(* one such synchronous segment, and segments of different handlers        *)
(* interleave freely at the awaits.                                        *)
(*                                                                         *)
(* Points are counted in half points (0.5 -> 1, 1 -> 2). An instant is     *)
(* counted in slices since January of BaseYear, two to a UTC month: slice  *)
(* 2m is the first hours of UTC month m, when it is still the month before *)
(* in America/New_York, and slice 2m + 1 is the rest of the month.         *)
(***************************************************************************)
EXTENDS Integers, Sequences, FiniteSets, TLC

VARIABLES
  disk,      \* contents of DATA_FILE (data.json): NoFile or {nextId, calls}
  pc,        \* pc[p]: the promise handler invocation p is waiting for ("idle": none)
  req,       \* req[p]: the locals of invocation p
  changed,   \* changed[p]: invocation p's saveData wrote a store other than the one in the file
  posted,    \* ids of the call cards (with their three buttons) in the log channel
  reply,     \* what the latest step handed to interaction.reply / interaction.update
  stats,     \* the scores in that reply when it is /percent's
  board,     \* the events loaded and the rows in that reply when it is /leaderboard's
  roll,      \* the lists in that reply when it is /rollcall's
  served,    \* requests taken so far
  idLog,     \* history: the ids handed out by /call, in order, with a 0 where the process restarted
  latest     \* history: latest[id][u], the last response of u on event id since u's last reset

vars == <<disk, pc, req, changed, posted, reply, stats, board, roll, served, idLog, latest>>

----------------------------------------------------------------------------
(* Bounds *)

MaxCalls == 2          \* /call creations in a run
MaxReq == 3            \* interactions received in a run
NumProcs == 2          \* handler invocations in flight at once
MaxSlice == 49         \* the instants an event is dated at: two years from December before BaseYear

Procs == 1..NumProcs
Users == {"u1", "u2"}
CallIds == 1..MaxCalls

----------------------------------------------------------------------------
(* Program constants *)

BaseYear == 2026
NowT == 5              \* new Date(): in March 2026
PointChoices == {0, 1, 2}                       \* addChoices 0, 0.5, 1
Statuses == {"MADE", "SILENT", "MISSED"}        \* buildButtons customIds
DateStrs == {" ", "tomorrow", "2026-03-02 21:40", "2026-04-02 21:40"}

\* the /call option values tried: points, counts_against, date
CallInputs ==
  { [points |-> 2, countsAgainst |-> TRUE,  date |-> "2026-03-02 21:40"],
    [points |-> 1, countsAgainst |-> FALSE, date |-> "tomorrow"],
    [points |-> 0, countsAgainst |-> TRUE,  date |-> " "],
    [points |-> 2, countsAgainst |-> FALSE, date |-> "2026-04-02 21:40"] }

NaN == -1
Undefined == "undefined"

----------------------------------------------------------------------------
(* Data store *)

EmptyData == [nextId |-> 1, calls |-> <<>>]

\* no data.json yet (readFileSync throws ENOENT)
NoFile == [exists |-> FALSE, doc |-> EmptyData]

loadDataFresh(file, readOk) == EmptyData

\* loadData: the parsed file, or the fallback document when reading or parsing throws
loadData(file, readOk) ==
  IF readOk /\ file.exists THEN file.doc ELSE EmptyData

\* saveData: the whole document replaces the file
saveData(data) == [exists |-> TRUE, doc |-> data]

----------------------------------------------------------------------------
(* Date helpers *)

\* new Date(s.replace(" ", "T")).getTime()
DateParse(s) ==
  CASE s = "2026-03-02 21:40" -> 5
    [] s = "2026-04-02 21:40" -> 7
    [] OTHER -> NaN

Trim(s) == IF s = " " THEN "" ELSE s

parseUserDate(dateStr, now) ==
  LET s == Trim(dateStr) IN
  IF s = "" THEN now
  ELSE IF DateParse(s) = NaN THEN now ELSE DateParse(s)

\* the calendar month (0: January of BaseYear) of the instant t on the wall
\* clock of timeZone: "America/New_York"
NYMonth(t) == (t - 1) \div 2

\* `${yy}-${mm}` of the Intl.DateTimeFormat parts
monthKeySortable(t) ==
  [yy |-> BaseYear + (NYMonth(t) \div 12), mm |-> (NYMonth(t) % 12) + 1]

quarterKeyUTC(t) ==
  [yy |-> BaseYear + ((t \div 2) \div 12), q |-> (((t \div 2) % 12) \div 3) + 1]

\* d is the New York wall clock of t read back as local time, so that
\* d.getMonth() and d.getFullYear() are the wall clock's month and year
quarterKey(t) ==
  LET d == NYMonth(t)
  IN  [yy |-> BaseYear + (d \div 12), q |-> ((d % 12) \div 3) + 1]

----------------------------------------------------------------------------
(* Attendance: a JS object, i.e. its entries in insertion order *)

IndexOf(att, uid) ==
  IF \E i \in 1..Len(att) : att[i].uid = uid
  THEN CHOOSE i \in 1..Len(att) : att[i].uid = uid
  ELSE 0

\* call.attendance?.[userId]
Resp(att, uid) ==
  IF IndexOf(att, uid) = 0 THEN Undefined ELSE att[IndexOf(att, uid)].st

SetAttendanceClobber(att, uid, status) == <<[uid |-> uid, st |-> status]>>

SetAttendanceDup(att, uid, status) == Append(att, [uid |-> uid, st |-> status])

SetAttendanceLabel(att, uid, status) ==
  IF IndexOf(att, uid) = 0
  THEN Append(att, [uid |-> uid, st |-> "Made"])
  ELSE [att EXCEPT ![IndexOf(att, uid)].st = "Made"]

\* call.attendance[uid] = status
SetAttendance(att, uid, status) ==
  IF IndexOf(att, uid) = 0
  THEN Append(att, [uid |-> uid, st |-> status])
  ELSE [att EXCEPT ![IndexOf(att, uid)].st = status]

DeleteAttendanceKeep(att, uid) == att

\* delete call.attendance[uid]
DeleteAttendance(att, uid) ==
  SelectSeq(att, LAMBDA e : e.uid # uid)

\* data.calls.find(c => c.id === id): index of the first match, 0 for undefined
FindCall(calls, id) ==
  IF \E i \in 1..Len(calls) : calls[i].id = id
  THEN CHOOSE i \in 1..Len(calls) :
         calls[i].id = id /\ \A j \in 1..(i - 1) : calls[j].id # id
  ELSE 0

----------------------------------------------------------------------------
(* Scoring *)

Min(a, b) == IF a < b THEN a ELSE b

RECURSIVE Gcd(_, _)
Gcd(a, b) == IF b = 0 THEN a ELSE Gcd(b, a % b)

PctUnguarded(earned, possible) == [num |-> earned * 100, den |-> possible]

\* (earned / possible) * 100 as a fraction in lowest terms
Pct(earned, possible) ==
  IF possible > 0
  THEN LET g == Gcd(earned * 100, possible)
       IN  [num |-> (earned * 100) \div g, den |-> possible \div g]
  ELSE [num |-> 0, den |-> 1]

ZeroAcc == [possible |-> 0, earned |-> 0, made |-> 0, silent |-> 0, missed |-> 0]

ScoreOneNoPenalty(acc, c, userId) ==
  LET p == c.points
      resp == Resp(c.attendance, userId)
  IN  IF p = 0 THEN acc
      ELSE IF resp = "MADE"
           THEN [acc EXCEPT !.possible = @ + p, !.earned = @ + p, !.made = @ + 1]
      ELSE IF resp = "SILENT"
           THEN [acc EXCEPT !.possible = @ + p, !.earned = @ + Min(1, p), !.silent = @ + 1]
      ELSE [acc EXCEPT !.missed = @ + 1]

ScoreOneAlwaysPossible(acc, c, userId) ==
  LET p == c.points
      resp == Resp(c.attendance, userId)
  IN  IF p = 0 THEN acc
      ELSE IF c.countsAgainst
      THEN IF resp = "MADE"
           THEN [acc EXCEPT !.possible = @ + p, !.earned = @ + p, !.made = @ + 1]
           ELSE IF resp = "SILENT"
           THEN [acc EXCEPT !.possible = @ + p, !.earned = @ + Min(1, p), !.silent = @ + 1]
           ELSE [acc EXCEPT !.possible = @ + p, !.missed = @ + 1]
      ELSE IF resp = "MADE"
           THEN [acc EXCEPT !.possible = @ + p, !.earned = @ + p, !.made = @ + 1]
           ELSE IF resp = "SILENT"
           THEN [acc EXCEPT !.possible = @ + p, !.earned = @ + Min(1, p), !.silent = @ + 1]
           ELSE [acc EXCEPT !.possible = @ + p, !.missed = @ + 1]

ScoreOneSilentFull(acc, c, userId) ==
  LET p == c.points
      resp == Resp(c.attendance, userId)
  IN  IF p = 0 THEN acc
      ELSE IF c.countsAgainst
      THEN IF resp = "MADE"
           THEN [acc EXCEPT !.possible = @ + p, !.earned = @ + p, !.made = @ + 1]
           ELSE IF resp = "SILENT"
           THEN [acc EXCEPT !.possible = @ + p, !.earned = @ + p, !.silent = @ + 1]
           ELSE [acc EXCEPT !.possible = @ + p, !.missed = @ + 1]
      ELSE IF resp = "MADE"
           THEN [acc EXCEPT !.possible = @ + p, !.earned = @ + p, !.made = @ + 1]
           ELSE IF resp = "SILENT"
           THEN [acc EXCEPT !.possible = @ + p, !.earned = @ + p, !.silent = @ + 1]
           ELSE [acc EXCEPT !.missed = @ + 1]

ScoreOneCountZero(acc, c, userId) ==
  LET p == c.points
      resp == Resp(c.attendance, userId)
  IN  IF c.countsAgainst
      THEN IF resp = "MADE"
           THEN [acc EXCEPT !.possible = @ + p, !.earned = @ + p, !.made = @ + 1]
           ELSE IF resp = "SILENT"
           THEN [acc EXCEPT !.possible = @ + p, !.earned = @ + Min(1, p), !.silent = @ + 1]
           ELSE [acc EXCEPT !.possible = @ + p, !.missed = @ + 1]
      ELSE IF resp = "MADE"
           THEN [acc EXCEPT !.possible = @ + p, !.earned = @ + p, !.made = @ + 1]
           ELSE IF resp = "SILENT"
           THEN [acc EXCEPT !.possible = @ + p, !.earned = @ + Min(1, p), !.silent = @ + 1]
           ELSE [acc EXCEPT !.missed = @ + 1]

ScoreOneMissedUncounted(acc, c, userId) ==
  LET p == c.points
      resp == Resp(c.attendance, userId)
  IN  IF p = 0 THEN acc
      ELSE IF c.countsAgainst
      THEN IF resp = "MADE"
           THEN [acc EXCEPT !.possible = @ + p, !.earned = @ + p, !.made = @ + 1]
           ELSE IF resp = "SILENT"
           THEN [acc EXCEPT !.possible = @ + p, !.earned = @ + Min(1, p), !.silent = @ + 1]
           ELSE [acc EXCEPT !.possible = @ + p, !.missed = @ + 1]
      ELSE IF resp = "MADE"
           THEN [acc EXCEPT !.possible = @ + p, !.earned = @ + p, !.made = @ + 1]
           ELSE IF resp = "SILENT"
           THEN [acc EXCEPT !.possible = @ + p, !.earned = @ + Min(1, p), !.silent = @ + 1]
           ELSE acc

\* one iteration of calcStats's loop
ScoreOne(acc, c, userId) ==
  LET p == c.points
      resp == Resp(c.attendance, userId)
  IN  IF p = 0 THEN acc
      ELSE IF c.countsAgainst
      THEN IF resp = "MADE"
           THEN [acc EXCEPT !.possible = @ + p, !.earned = @ + p, !.made = @ + 1]
           ELSE IF resp = "SILENT"
           THEN [acc EXCEPT !.possible = @ + p, !.earned = @ + Min(1, p), !.silent = @ + 1]
           ELSE [acc EXCEPT !.possible = @ + p, !.missed = @ + 1]
      ELSE IF resp = "MADE"
           THEN [acc EXCEPT !.possible = @ + p, !.earned = @ + p, !.made = @ + 1]
           ELSE IF resp = "SILENT"
           THEN [acc EXCEPT !.possible = @ + p, !.earned = @ + Min(1, p), !.silent = @ + 1]
           ELSE [acc EXCEPT !.missed = @ + 1]

RECURSIVE ScoreLoop(_, _, _, _)
ScoreLoop(acc, calls, i, userId) ==
  IF i > Len(calls) THEN acc
  ELSE ScoreLoop(ScoreOne(acc, calls[i], userId), calls, i + 1, userId)

NoStats == [uid |-> "", m |-> ZeroAcc, q |-> ZeroAcc]

NoBoard == [seen |-> <<>>, rows |-> <<>>]

NoRoll == [cad |-> 0, made |-> <<>>, silent |-> <<>>, missed |-> <<>>]

calcStats(userId, calls) ==
  LET a == ScoreLoop(ZeroAcc, calls, 1, userId)
  IN  [possible |-> a.possible, earned |-> a.earned,
       pct |-> Pct(a.earned, a.possible),
       made |-> a.made, silent |-> a.silent, missed |-> a.missed]

----------------------------------------------------------------------------
(* Handler invocations *)

NoReq == [uid |-> "", id |-> 0, status |-> ""]

NoReply == [kind |-> "none", changed |-> FALSE]

\* the replies that tell the invoking user the request failed
Failure == {"not_found", "nolog", "error"}

\* the store a reader of the file gets
Store(file) == loadData(file, TRUE)

\* invocation p takes the next interaction (invocations are numbered in the
\* order of the free slots)
Accept(p) ==
  /\ pc[p] = "idle"
  /\ \A q \in Procs : q < p => pc[q] # "idle"
  /\ served < MaxReq
  /\ served' = served + 1

Init ==
  /\ disk = NoFile
  /\ pc = [p \in Procs |-> "idle"]
  /\ req = [p \in Procs |-> NoReq]
  /\ changed = [p \in Procs |-> FALSE]
  /\ posted = {}
  /\ reply = NoReply
  /\ stats = NoStats
  /\ board = NoBoard
  /\ roll = NoRoll
  /\ served = 0
  /\ idLog = <<>>
  /\ latest = [id \in CallIds |-> [u \in Users |-> Undefined]]

ButtonClickSaveFirst(p, uid, id, status, readOk) ==
  /\ Accept(p)
  /\ id \in posted
  /\ LET data == loadData(disk, readOk)
         i == FindCall(data.calls, id)
     IN  IF i = 0
         THEN /\ disk' = saveData(data)
              /\ reply' = [kind |-> "not_found", changed |-> FALSE]
              /\ UNCHANGED <<pc, req, changed, latest>>
         ELSE LET data2 == [data EXCEPT !.calls[i].attendance =
                                          SetAttendance(@, uid, status)]
              IN  /\ disk' = saveData(data2)
                  /\ pc' = [pc EXCEPT ![p] = "btn_update"]
                  /\ req' = [req EXCEPT ![p] = [uid |-> uid, id |-> id, status |-> status]]
                  /\ changed' = [changed EXCEPT ![p] = (Store(disk) # data2)]
                  /\ reply' = [kind |-> "update", changed |-> (Store(disk) # data2)]
                  /\ latest' = [latest EXCEPT ![id][uid] = status]
  /\ stats' = NoStats
  /\ board' = NoBoard
  /\ roll' = NoRoll
  /\ UNCHANGED <<posted, idLog>>

\* button branch: loadData ... return interaction.update(...) / interaction.reply(...)
ButtonClick(p, uid, id, status, readOk) ==
  /\ Accept(p)
  /\ id \in posted
  /\ LET data == loadData(disk, readOk)
         i == FindCall(data.calls, id)
     IN  IF i = 0
         THEN /\ reply' = [kind |-> "not_found", changed |-> FALSE]
              /\ UNCHANGED <<disk, pc, req, changed, latest>>
         ELSE LET data2 == [data EXCEPT !.calls[i].attendance =
                                          SetAttendance(@, uid, status)]
              IN  /\ disk' = saveData(data2)
                  /\ pc' = [pc EXCEPT ![p] = "btn_update"]
                  /\ req' = [req EXCEPT ![p] = [uid |-> uid, id |-> id, status |-> status]]
                  /\ changed' = [changed EXCEPT ![p] = (Store(disk) # data2)]
                  /\ reply' = [kind |-> "update", changed |-> (Store(disk) # data2)]
                  /\ latest' = [latest EXCEPT ![id][uid] = status]
  /\ stats' = NoStats
  /\ board' = NoBoard
  /\ roll' = NoRoll
  /\ UNCHANGED <<posted, idLog>>

\* a handler that returned the promise of its reply ends when the promise
\* settles; a rejection passes the catch block by (the promise is returned,
\* not awaited)
Settle(p) ==
  /\ pc' = [pc EXCEPT ![p] = "idle"]
  /\ req' = [req EXCEPT ![p] = NoReq]
  /\ changed' = [changed EXCEPT ![p] = FALSE]
  /\ reply' = NoReply
  /\ stats' = NoStats
  /\ board' = NoBoard
  /\ roll' = NoRoll
  /\ UNCHANGED <<disk, posted, served, idLog, latest>>

ButtonUpdate(p) ==
  /\ pc[p] = "btn_update"
  /\ Settle(p)

NewCallNoBump(data, points, countsAgainst, dt) ==
  [nextId |-> data.nextId,
   calls |-> Append(data.calls,
                    [id |-> data.nextId,
                     cad |-> data.nextId,
                     points |-> points,
                     countsAgainst |-> countsAgainst,
                     createdAt |-> NowT,
                     monthSort |-> monthKeySortable(dt),
                     quarter |-> quarterKey(dt),
                     attendance |-> <<>>])]

\* const call = {id: data.nextId++, cad, ...}; data.calls.push(call)
NewCall(data, points, countsAgainst, dt) ==
  [nextId |-> data.nextId + 1,
   calls |-> Append(data.calls,
                    [id |-> data.nextId,
                     cad |-> data.nextId,
                     points |-> points,
                     countsAgainst |-> countsAgainst,
                     createdAt |-> NowT,
                     monthSort |-> monthKeySortable(dt),
                     quarter |-> quarterKey(dt),
                     attendance |-> <<>>])]

\* the ids handed out so far (idLog without its restart marks)
Assigned == SelectSeq(idLog, LAMBDA x : x # 0)

\* /call: loadData ... await client.channels.fetch(LOG_CHANNEL_ID)
CallCmd(p, points, countsAgainst, dateStr, readOk) ==
  /\ Accept(p)
  /\ Len(Assigned) < MaxCalls
  /\ LET data == loadData(disk, readOk)
         dt == parseUserDate(dateStr, NowT)
         data2 == NewCall(data, points, countsAgainst, dt)
     IN  /\ disk' = saveData(data2)
         /\ pc' = [pc EXCEPT ![p] = "call_fetch"]
         /\ req' = [req EXCEPT ![p] = [uid |-> "", id |-> data.nextId, status |-> ""]]
         /\ changed' = [changed EXCEPT ![p] = (Store(disk) # data2)]
         /\ idLog' = Append(idLog, data.nextId)
  /\ reply' = NoReply
  /\ stats' = NoStats
  /\ board' = NoBoard
  /\ roll' = NoRoll
  /\ UNCHANGED <<posted, latest>>

\* the fetch settles (.catch(() => null)): "LOG_CHANNEL_ID is wrong" and
\* return, or await interaction.reply("Call posted.")
CallFetch(p, ok) ==
  /\ pc[p] = "call_fetch"
  /\ IF ok
     THEN /\ pc' = [pc EXCEPT ![p] = "call_reply"]
          /\ reply' = [kind |-> "posted", changed |-> changed[p]]
          /\ UNCHANGED <<req, changed>>
     ELSE /\ pc' = [pc EXCEPT ![p] = "idle"]
          /\ reply' = [kind |-> "nolog", changed |-> changed[p]]
          /\ req' = [req EXCEPT ![p] = NoReq]
          /\ changed' = [changed EXCEPT ![p] = FALSE]
  /\ stats' = NoStats
  /\ board' = NoBoard
  /\ roll' = NoRoll
  /\ UNCHANGED <<disk, posted, served, idLog, latest>>

\* the awaited reply settles: await logCh.send(...), or the catch block's
\* interaction.reply("Error - check Render logs.")
CallReply(p, ok) ==
  /\ pc[p] = "call_reply"
  /\ IF ok
     THEN /\ pc' = [pc EXCEPT ![p] = "call_send"]
          /\ reply' = NoReply
          /\ UNCHANGED <<req, changed>>
     ELSE /\ pc' = [pc EXCEPT ![p] = "idle"]
          /\ reply' = [kind |-> "error", changed |-> changed[p]]
          /\ req' = [req EXCEPT ![p] = NoReq]
          /\ changed' = [changed EXCEPT ![p] = FALSE]
  /\ stats' = NoStats
  /\ board' = NoBoard
  /\ roll' = NoRoll
  /\ UNCHANGED <<disk, posted, served, idLog, latest>>

\* the awaited send settles: the card with buildButtons(call.id, ...) is in
\* the channel, or the catch block runs (its reply throws, the interaction
\* being replied to already, and the throw is swallowed)
CallSend(p, ok) ==
  /\ pc[p] = "call_send"
  /\ posted' = IF ok THEN posted \cup {req[p].id} ELSE posted
  /\ pc' = [pc EXCEPT ![p] = "idle"]
  /\ req' = [req EXCEPT ![p] = NoReq]
  /\ changed' = [changed EXCEPT ![p] = FALSE]
  /\ reply' = NoReply
  /\ stats' = NoStats
  /\ board' = NoBoard
  /\ roll' = NoRoll
  /\ UNCHANGED <<disk, served, idLog, latest>>

ResetCallsDrop(calls, userId) ==
  SelectSeq(calls, LAMBDA c : Resp(c.attendance, userId) = Undefined)

\* for (const call of data.calls) if (call.attendance[userId]) delete ...
ResetCalls(calls, userId) ==
  [i \in 1..Len(calls) |->
     IF Resp(calls[i].attendance, userId) # Undefined
     THEN [calls[i] EXCEPT !.attendance = DeleteAttendance(@, userId)]
     ELSE calls[i]]

\* /resetpercent: loadData ... return interaction.reply(...)
ResetPercent(p, uid, readOk) ==
  /\ Accept(p)
  /\ LET data == loadData(disk, readOk)
         data2 == [data EXCEPT !.calls = ResetCalls(@, uid)]
     IN  /\ disk' = saveData(data2)
         /\ changed' = [changed EXCEPT ![p] = (Store(disk) # data2)]
         /\ reply' = [kind |-> "reset", changed |-> (Store(disk) # data2)]
  /\ pc' = [pc EXCEPT ![p] = "reset_reply"]
  /\ req' = [req EXCEPT ![p] = NoReq]
  /\ latest' = [id \in CallIds |-> [latest[id] EXCEPT ![uid] = Undefined]]
  /\ stats' = NoStats
  /\ board' = NoBoard
  /\ roll' = NoRoll
  /\ UNCHANGED <<posted, idLog>>

ResetReply(p) ==
  /\ pc[p] = "reset_reply"
  /\ Settle(p)

MonthCallsAll(calls, now) == calls

\* data.calls.filter(c => c.monthSort === thisMonthKey)
MonthCalls(calls, now) ==
  SelectSeq(calls, LAMBDA c : c.monthSort = monthKeySortable(now))

QuarterCalls(calls, now) ==
  SelectSeq(calls, LAMBDA c : c.quarter = quarterKey(now))

PercentSaving(p, uid, readOk) ==
  /\ Accept(p)
  /\ LET data == loadData(disk, readOk)
     IN  stats' = [uid |-> uid,
                   m |-> calcStats(uid, MonthCalls(data.calls, NowT)),
                   q |-> calcStats(uid, QuarterCalls(data.calls, NowT))]
  /\ reply' = [kind |-> "percent", changed |-> FALSE]
  /\ board' = NoBoard
  /\ roll' = NoRoll
  /\ pc' = [pc EXCEPT ![p] = "percent_reply"]
  /\ req' = [req EXCEPT ![p] = NoReq]
  /\ changed' = [changed EXCEPT ![p] = FALSE]
  /\ disk' = saveData(loadData(disk, readOk))
  /\ UNCHANGED <<posted, idLog, latest>>

\* /percent: loadData ... return interaction.reply({embeds})
Percent(p, uid, readOk) ==
  /\ Accept(p)
  /\ LET data == loadData(disk, readOk)
     IN  stats' = [uid |-> uid,
                   m |-> calcStats(uid, MonthCalls(data.calls, NowT)),
                   q |-> calcStats(uid, QuarterCalls(data.calls, NowT))]
  /\ reply' = [kind |-> "percent", changed |-> FALSE]
  /\ board' = NoBoard
  /\ roll' = NoRoll
  /\ pc' = [pc EXCEPT ![p] = "percent_reply"]
  /\ req' = [req EXCEPT ![p] = NoReq]
  /\ changed' = [changed EXCEPT ![p] = FALSE]
  /\ UNCHANGED <<disk, posted, idLog, latest>>

PercentReply(p) ==
  /\ pc[p] = "percent_reply"
  /\ Settle(p)

AddKeysDup(users, att, k) ==
  users \o [j \in 1..Len(att) |-> att[j].uid]

\* for (const uid of Object.keys(c.attendance || {})) users.add(uid): a Set
\* keeps its members in the order they were first added
RECURSIVE AddKeys(_, _, _)
AddKeys(users, att, k) ==
  IF k > Len(att) THEN users
  ELSE AddKeys(IF \E j \in 1..Len(users) : users[j] = att[k].uid
               THEN users ELSE Append(users, att[k].uid),
               att, k + 1)

\* for (const c of monthCalls) ...
RECURSIVE Discover(_, _, _)
Discover(users, calls, i) ==
  IF i > Len(calls) THEN users
  ELSE Discover(AddKeys(users, calls[i].attendance, 1), calls, i + 1)

\* rows.push({uid, pct, earned, possible}) for each member of users
Rows(users, calls) ==
  [j \in 1..Len(users) |->
     LET s == calcStats(users[j], calls)
     IN  [uid |-> users[j], pct |-> s.pct, earned |-> s.earned, possible |-> s.possible]]

\* b.pct - a.pct > 0: the comparator puts b before a
PctLess(a, b) == a.num * b.den < b.num * a.den

InsertRowBeforeTies(sorted, r) ==
  LET k == Cardinality({i \in 1..Len(sorted) : PctLess(r.pct, sorted[i].pct)})
  IN  SubSeq(sorted, 1, k) \o <<r>> \o SubSeq(sorted, k + 1, Len(sorted))

\* Array.prototype.sort is stable: a row goes behind the rows, already in
\* place, whose pct is not less than its own
InsertRow(sorted, r) ==
  LET k == Cardinality({i \in 1..Len(sorted) : ~PctLess(sorted[i].pct, r.pct)})
  IN  SubSeq(sorted, 1, k) \o <<r>> \o SubSeq(sorted, k + 1, Len(sorted))

\* rows.sort((a, b) => b.pct - a.pct)
RECURSIVE SortRows(_, _, _)
SortRows(sorted, rows, j) ==
  IF j > Len(rows) THEN sorted
  ELSE SortRows(InsertRow(sorted, rows[j]), rows, j + 1)

\* /leaderboard: loadData ... return interaction.reply(...)
Leaderboard(p, readOk) ==
  /\ Accept(p)
  /\ LET data == loadData(disk, readOk)
         monthCalls == MonthCalls(data.calls, NowT)
         users == Discover(<<>>, monthCalls, 1)
     IN  IF users = <<>>
         THEN /\ reply' = [kind |-> "noboard", changed |-> FALSE]
              /\ board' = [seen |-> data.calls, rows |-> <<>>]
         ELSE /\ reply' = [kind |-> "leaderboard", changed |-> FALSE]
              /\ board' = [seen |-> data.calls,
                           rows |-> SortRows(<<>>, Rows(users, monthCalls), 1)]
  /\ pc' = [pc EXCEPT ![p] = "board_reply"]
  /\ req' = [req EXCEPT ![p] = NoReq]
  /\ changed' = [changed EXCEPT ![p] = FALSE]
  /\ stats' = NoStats
  /\ roll' = NoRoll
  /\ UNCHANGED <<disk, posted, idLog, latest>>

BoardReply(p) ==
  /\ pc[p] = "board_reply"
  /\ Settle(p)

\* the user ids answering st, in the order of Object.entries(attendance)
ListOf(att, st) ==
  LET sel == SelectSeq(att, LAMBDA e : e.st = st)
  IN  [k \in 1..Len(sel) |-> sel[k].uid]

buildAttendanceLists(attendance) ==
  [made |-> ListOf(attendance, "MADE"),
   silent |-> ListOf(attendance, "SILENT"),
   missed |-> ListOf(attendance, "MISSED")]

\* the stable sort puts a call behind the calls, already in place, that were
\* not created before it
InsertCall(sorted, c) ==
  LET k == Cardinality({i \in 1..Len(sorted) : sorted[i].createdAt >= c.createdAt})
  IN  SubSeq(sorted, 1, k) \o <<c>> \o SubSeq(sorted, k + 1, Len(sorted))

\* calls.sort((a, b) => new Date(b.createdAt) - new Date(a.createdAt))
RECURSIVE SortCalls(_, _, _)
SortCalls(sorted, calls, j) ==
  IF j > Len(calls) THEN sorted
  ELSE SortCalls(InsertCall(sorted, calls[j]), calls, j + 1)

\* /rollcall: loadData ... return interaction.reply(...)
Rollcall(p, cad, readOk) ==
  /\ Accept(p)
  /\ LET data == loadData(disk, readOk)
         calls == SelectSeq(data.calls, LAMBDA c : c.cad = cad)
     IN  IF calls = <<>>
         THEN /\ reply' = [kind |-> "norecord", changed |-> FALSE]
              /\ roll' = NoRoll
         ELSE LET call == SortCalls(<<>>, calls, 1)[1]
                  lists == buildAttendanceLists(call.attendance)
              IN  /\ reply' = [kind |-> "rollcall", changed |-> FALSE]
                  /\ roll' = [cad |-> cad, made |-> lists.made,
                              silent |-> lists.silent, missed |-> lists.missed]
  /\ pc' = [pc EXCEPT ![p] = "roll_reply"]
  /\ req' = [req EXCEPT ![p] = NoReq]
  /\ changed' = [changed EXCEPT ![p] = FALSE]
  /\ stats' = NoStats
  /\ board' = NoBoard
  /\ UNCHANGED <<disk, posted, idLog, latest>>

RollReply(p) ==
  /\ pc[p] = "roll_reply"
  /\ Settle(p)

\* the process is restarted: every invocation in flight is gone, the file stays
Restart ==
  /\ \E p \in Procs : pc[p] # "idle"
  /\ pc' = [p \in Procs |-> "idle"]
  /\ req' = [p \in Procs |-> NoReq]
  /\ changed' = [p \in Procs |-> FALSE]
  /\ reply' = NoReply
  /\ stats' = NoStats
  /\ board' = NoBoard
  /\ roll' = NoRoll
  /\ idLog' = IF idLog # <<>> /\ idLog[Len(idLog)] # 0 THEN Append(idLog, 0) ELSE idLog
  /\ UNCHANGED <<disk, posted, served, latest>>

Next ==
  \/ \E p \in Procs, u \in Users, id \in CallIds, s \in Statuses :
       ButtonClick(p, u, id, s, TRUE)
  \/ \E p \in Procs : ButtonUpdate(p)
  \/ \E p \in Procs, in \in CallInputs :
       CallCmd(p, in.points, in.countsAgainst, in.date, TRUE)
  \/ \E p \in Procs, ok \in BOOLEAN : CallFetch(p, ok)
  \/ \E p \in Procs, ok \in BOOLEAN : CallReply(p, ok)
  \/ \E p \in Procs, ok \in BOOLEAN : CallSend(p, ok)
  \/ \E p \in Procs, u \in Users : ResetPercent(p, u, TRUE)
  \/ \E p \in Procs : ResetReply(p)
  \/ \E p \in Procs, u \in Users : Percent(p, u, TRUE)
  \/ \E p \in Procs : PercentReply(p)
  \/ \E p \in Procs : Leaderboard(p, TRUE)
  \/ \E p \in Procs : BoardReply(p)
  \/ \E p \in Procs, cad \in CallIds : Rollcall(p, cad, TRUE)
  \/ \E p \in Procs : RollReply(p)
  \/ Restart

Spec == Init /\ [][Next]_vars

\* the same, with reads of data.json that throw (loadData's catch)
NextIO ==
  \/ Next
  \/ \E p \in Procs, u \in Users, id \in CallIds, s \in Statuses :
       ButtonClick(p, u, id, s, FALSE)
  \/ \E p \in Procs, in \in CallInputs :
       CallCmd(p, in.points, in.countsAgainst, in.date, FALSE)
  \/ \E p \in Procs, u \in Users : ResetPercent(p, u, FALSE)
  \/ \E p \in Procs, u \in Users : Percent(p, u, FALSE)
  \/ \E p \in Procs : Leaderboard(p, FALSE)
  \/ \E p \in Procs, cad \in CallIds : Rollcall(p, cad, FALSE)

SpecIO == Init /\ [][NextIO]_vars

----------------------------------------------------------------------------
(* Scoring on its own: a store of at most MaxCalls events, then /percent *)

\* the attendance objects tried: no response, or one user's
ScoreAttendance ==
  {<<>>} \cup {<<[uid |-> u, st |-> st]>> : u \in Users, st \in Statuses}

\* what /call (dated this month) and the buttons can have stored for an event
EventChoices ==
  { [points |-> pts, countsAgainst |-> ca, t |-> NowT, attendance |-> a] :
      pts \in PointChoices, ca \in BOOLEAN, a \in ScoreAttendance }

StoreOf(evs) ==
  [nextId |-> Len(evs) + 1,
   calls |-> [i \in 1..Len(evs) |->
                [id |-> i, cad |-> i,
                 points |-> evs[i].points,
                 countsAgainst |-> evs[i].countsAgainst,
                 createdAt |-> NowT,
                 monthSort |-> monthKeySortable(evs[i].t),
                 quarter |-> quarterKey(evs[i].t),
                 attendance |-> evs[i].attendance]]]

InitScore ==
  /\ \E n \in 1..MaxCalls : \E evs \in [1..n -> EventChoices] :
       disk = saveData(StoreOf(evs))
  /\ pc = [p \in Procs |-> "idle"]
  /\ req = [p \in Procs |-> NoReq]
  /\ changed = [p \in Procs |-> FALSE]
  /\ posted = {c \in CallIds : c < disk.doc.nextId}
  /\ reply = NoReply
  /\ stats = NoStats
  /\ board = NoBoard
  /\ roll = NoRoll
  /\ served = MaxReq - 1
  /\ idLog = [i \in 1..(disk.doc.nextId - 1) |-> i]
  /\ latest = [id \in CallIds |-> [u \in Users |->
                 IF id < disk.doc.nextId
                 THEN Resp(disk.doc.calls[id].attendance, u) ELSE Undefined]]

NextScore ==
  \/ \E p \in Procs, u \in Users : Percent(p, u, TRUE)
  \/ \E p \in Procs : PercentReply(p)

SpecScore == InitScore /\ [][NextScore]_vars

----------------------------------------------------------------------------
(* The buttons on their own: a store of at most MaxCalls events, then a    *)
(* click                                                                    *)

NextClick ==
  \/ \E p \in Procs, u \in Users, id \in CallIds, s \in Statuses, ok \in BOOLEAN :
       ButtonClick(p, u, id, s, ok)
  \/ \E p \in Procs : ButtonUpdate(p)

SpecClick == InitScore /\ [][NextClick]_vars

----------------------------------------------------------------------------
(* The leaderboard on its own: a store of MaxCalls events with up to two   *)
(* responses each, then /resetpercent and /leaderboard                      *)

\* the attendance objects tried: the responses of distinct users, in either
\* order of insertion
BoardAttendance ==
  {<<>>}
  \cup {<<[uid |-> u, st |-> st]>> : u \in Users, st \in Statuses}
  \cup {<<[uid |-> uv[1], st |-> s1], [uid |-> uv[2], st |-> s2]>> :
          uv \in {w \in Users \X Users : w[1] # w[2]},
          s1 \in Statuses, s2 \in Statuses}

\* a 1-point event that counts against and a half-point event that does not,
\* this month, and a 1-point event of next month
BoardEvents ==
  { [points |-> k.points, countsAgainst |-> k.countsAgainst, t |-> k.t, attendance |-> a] :
      k \in { [points |-> 2, countsAgainst |-> TRUE,  t |-> NowT],
              [points |-> 1, countsAgainst |-> FALSE, t |-> NowT],
              [points |-> 2, countsAgainst |-> TRUE,  t |-> NowT + 2] },
      a \in BoardAttendance }

InitBoard ==
  /\ \E evs \in [1..MaxCalls -> BoardEvents] : disk = saveData(StoreOf(evs))
  /\ pc = [p \in Procs |-> "idle"]
  /\ req = [p \in Procs |-> NoReq]
  /\ changed = [p \in Procs |-> FALSE]
  /\ posted = {c \in CallIds : c < disk.doc.nextId}
  /\ reply = NoReply
  /\ stats = NoStats
  /\ board = NoBoard
  /\ roll = NoRoll
  /\ served = MaxReq - 2
  /\ idLog = [i \in 1..(disk.doc.nextId - 1) |-> i]
  /\ latest = [id \in CallIds |-> [u \in Users |->
                 IF id < disk.doc.nextId
                 THEN Resp(disk.doc.calls[id].attendance, u) ELSE Undefined]]

NextBoard ==
  \/ \E p \in Procs, u \in Users : ResetPercent(p, u, TRUE)
  \/ \E p \in Procs : ResetReply(p)
  \/ \E p \in Procs : Leaderboard(p, TRUE)
  \/ \E p \in Procs : BoardReply(p)

SpecBoard == InitBoard /\ [][NextBoard]_vars

----------------------------------------------------------------------------
(* The period keys on their own: a store of one event dated at any instant *)
(* of two years, then /percent                                              *)

Instants == 0..MaxSlice

InitKeys ==
  /\ \E t \in Instants, a \in {<<>>, <<[uid |-> "u1", st |-> "MADE"]>>} :
       disk = saveData(StoreOf(<<[points |-> 2, countsAgainst |-> TRUE,
                                  t |-> t, attendance |-> a]>>))
  /\ pc = [p \in Procs |-> "idle"]
  /\ req = [p \in Procs |-> NoReq]
  /\ changed = [p \in Procs |-> FALSE]
  /\ posted = {c \in CallIds : c < disk.doc.nextId}
  /\ reply = NoReply
  /\ stats = NoStats
  /\ board = NoBoard
  /\ roll = NoRoll
  /\ served = MaxReq - 1
  /\ idLog = [i \in 1..(disk.doc.nextId - 1) |-> i]
  /\ latest = [id \in CallIds |-> [u \in Users |->
                 IF id < disk.doc.nextId
                 THEN Resp(disk.doc.calls[id].attendance, u) ELSE Undefined]]

SpecKeys == InitKeys /\ [][NextScore]_vars

----------------------------------------------------------------------------
(* The monthly reports on their own: the same stores, then /percent and    *)
(* /leaderboard                                                             *)

NextPeriod ==
  \/ \E p \in Procs, u \in Users : Percent(p, u, TRUE)
  \/ \E p \in Procs : PercentReply(p)
  \/ \E p \in Procs : Leaderboard(p, TRUE)
  \/ \E p \in Procs : BoardReply(p)

SpecPeriod == InitBoard /\ [][NextPeriod]_vars

----------------------------------------------------------------------------
(* What the claims speak of *)

\* the response of uid on event id in the store of the file
RespOn(file, id, uid) ==
  LET calls == Store(file).calls
      i == FindCall(calls, id)
  IN  IF i = 0 THEN Undefined ELSE Resp(calls[i].attendance, uid)

StoredIds(file) == {Store(file).calls[i].id : i \in 1..Len(Store(file).calls)}

\* calls with the response of uid on its i-th event made r (Undefined: none)
WithResp(calls, i, uid, r) ==
  [calls EXCEPT ![i].attendance =
     IF r = Undefined THEN DeleteAttendance(@, uid) ELSE SetAttendance(@, uid, r)]

\* calls without its i-th event
Without(calls, i) ==
  [j \in 1..(Len(calls) - 1) |-> IF j < i THEN calls[j] ELSE calls[j + 1]]

----------------------------------------------------------------------------
(* C1: while a button handler that recorded (e, u1, s1) is still in flight, *)
(* the load-modify-save of a second button handler for another user u2 on   *)
(* the same event e leaves the file holding both attendance[u1] = s1 and    *)
(* attendance[u2] = s2, and a handler's finishing does not touch the file:  *)
(* no interleaving of the two loses an update.                              *)
C1_NoLostUpdate ==
  [][ /\ \A p, q \in Procs :
           ( /\ p # q
             /\ pc[p] = "btn_update"
             /\ pc[q] = "idle" /\ pc'[q] = "btn_update"
             /\ req'[q].id = req[p].id
             /\ req'[q].uid # req[p].uid
             /\ RespOn(disk, req[p].id, req[p].uid) = req[p].status )
           => /\ RespOn(disk', req[p].id, req[p].uid) = req[p].status
              /\ RespOn(disk', req'[q].id, req'[q].uid) = req'[q].status
      /\ \A p \in Procs :
           (pc[p] = "btn_update" /\ pc'[p] = "idle") => disk' = disk
    ]_vars

\* two button handlers for different users on one event are in flight, and
\* the file holds both responses
C1_Witness ==
  \E p, q \in Procs :
    /\ p # q
    /\ pc[p] = "btn_update" /\ pc[q] = "btn_update"
    /\ req[p].id = req[q].id
    /\ req[p].uid # req[q].uid
    /\ RespOn(disk, req[p].id, req[p].uid) = req[p].status
    /\ RespOn(disk, req[q].id, req[q].uid) = req[q].status

(* C2: the ids /call hands out are strictly increasing, across restarts of *)
(* the process too.                                                        *)
C2_MonotonicIds ==
  \A i, j \in 1..Len(Assigned) : i < j => Assigned[i] < Assigned[j]

\* a creation, a restart of the process, another creation
C2_Witness ==
  \E i, j, k \in 1..Len(idLog) :
    i < j /\ j < k /\ idLog[i] # 0 /\ idLog[j] = 0 /\ idLog[k] # 0

(* C3: in the stored document no two events share an id, and nextId is     *)
(* greater than every stored event's id.                                   *)
C3_UniqueIds ==
  LET d == Store(disk) IN
  /\ \A i, j \in 1..Len(d.calls) : i # j => d.calls[i].id # d.calls[j].id
  /\ \A i \in 1..Len(d.calls) : d.calls[i].id < d.nextId

\* two /call handlers are in flight at once and both events are stored
C3_Witness ==
  /\ \A p \in Procs : pc[p] \in {"call_fetch", "call_reply", "call_send"}
  /\ Len(Store(disk).calls) = 2

\* a step that took a request whose read of data.json threw
FailedRead ==
  \/ \E p \in Procs, u \in Users, id \in CallIds, s \in Statuses :
       ButtonClick(p, u, id, s, FALSE)
  \/ \E p \in Procs, in \in CallInputs :
       CallCmd(p, in.points, in.countsAgainst, in.date, FALSE)
  \/ \E p \in Procs, u \in Users : ResetPercent(p, u, FALSE)

(* C4: a create, record-response or reset whose read of the store failed   *)
(* persists no store from which a stored event is missing.                 *)
C4_NoFabricatedStore ==
  [][ FailedRead => StoredIds(disk) \subseteq StoredIds(disk') ]_vars

(* C5: a button click recording the state that the last click of that user *)
(* on that event recorded, and that the file holds, leaves the file as it   *)
(* is (and so every score computed from it).                                *)
C5_Idempotent ==
  [][ \A p \in Procs :
        ( /\ pc[p] = "idle" /\ pc'[p] = "btn_update"
          /\ latest[req'[p].id][req'[p].uid] = req'[p].status
          /\ RespOn(disk, req'[p].id, req'[p].uid) = req'[p].status )
        => /\ disk' = disk
           /\ \A u \in Users :
                calcStats(u, Store(disk').calls) = calcStats(u, Store(disk).calls)
    ]_vars

\* the same (event, user, state) has been recorded by two handlers in flight,
\* and the latest of them found it stored
C5_Witness ==
  /\ \E p, q \in Procs : p # q /\ pc[p] = "btn_update" /\ req[p] = req[q]
  /\ reply = [kind |-> "update", changed |-> FALSE]

(* C6: attendance[u] of every event is the state of the last                *)
(* record-response for that event and user since the user's last reset,     *)
(* absent if there is none, and an attendance map holds a user once.        *)
C6_LastWriteWins ==
  /\ \A id \in CallIds, u \in Users : RespOn(disk, id, u) = latest[id][u]
  /\ \A i \in 1..Len(Store(disk).calls) :
       LET att == Store(disk).calls[i].attendance
       IN  \A j, k \in 1..Len(att) : j # k => att[j].uid # att[k].uid

\* one user's response on one event has been recorded twice with different
\* states, the later overwriting the earlier
C6_Witness ==
  /\ \E p, q \in Procs :
       /\ p # q
       /\ pc[p] = "btn_update" /\ pc[q] = "btn_update"
       /\ req[p].id = req[q].id /\ req[p].uid = req[q].uid
       /\ req[p].status # req[q].status
  /\ reply = [kind |-> "update", changed |-> TRUE]

(* C7: a button click naming an event id that is not in the store it loads *)
(* replies "Call not found." and writes nothing.                           *)
C7_NotFoundNoWrite ==
  [][ served' # served =>
        \A p \in Procs, u \in Users, id \in CallIds, s \in Statuses, ok \in BOOLEAN :
          (ButtonClick(p, u, id, s, ok) /\ id \notin StoredIds(saveData(loadData(disk, ok))))
          => (reply'.kind = "not_found" /\ disk' = disk)
    ]_vars

\* "Call not found." has just been sent, with events in the file
C7_Witness ==
  reply.kind = "not_found" /\ Len(Store(disk).calls) > 0

(* C8: a /call whose date does not parse leaves the file unchanged.        *)
C8_MalformedDateRejected ==
  [][ \A p \in Procs, in \in CallInputs :
        ( /\ CallCmd(p, in.points, in.countsAgainst, in.date, TRUE)
          /\ Trim(in.date) # ""
          /\ DateParse(Trim(in.date)) = NaN )
        => disk' = disk
    ]_vars

(* C9: when a request has ended by telling the invoking user it failed,    *)
(* the store is what it was when the request started.                      *)
C9_FailureLeavesStore ==
  reply.kind \in Failure => ~reply.changed

(* C10: an event with countsAgainst and non-zero points adds its points to *)
(* possible whatever the user's response, and calcStats gives the same     *)
(* result for an absent response as for MISSED.                            *)
C10_AbsentIsMissed ==
  LET calls == Store(disk).calls IN
  \A u \in Users, i \in 1..Len(calls) :
    (calls[i].countsAgainst /\ calls[i].points # 0)
    => /\ \A r \in Statuses \cup {Undefined} :
            calcStats(u, WithResp(calls, i, u, r)).possible
              = calcStats(u, Without(calls, i)).possible + calls[i].points
       /\ calcStats(u, WithResp(calls, i, u, Undefined))
            = calcStats(u, WithResp(calls, i, u, "MISSED"))

\* /percent has just scored a user with no response on a 1-point event of
\* this month that counts against: possible 1, earned 0
C10_Witness ==
  /\ reply.kind = "percent"
  /\ Len(Store(disk).calls) = 1
  /\ Store(disk).calls[1].countsAgainst
  /\ Store(disk).calls[1].points = 2
  /\ Store(disk).calls[1].monthSort = monthKeySortable(NowT)
  /\ Resp(Store(disk).calls[1].attendance, stats.uid) = Undefined
  /\ stats.m.possible = 2 /\ stats.m.earned = 0 /\ stats.m.pct.num = 0

\* the events of the file
Calls == Store(disk).calls

(* C11: an event that does not count against adds its points to possible   *)
(* exactly when the user's response is MADE or SILENT; with MISSED or no    *)
(* response it adds nothing to possible and nothing to earned.              *)
C11_OptionalOnlyIfAttended ==
  \A u \in Users, i \in 1..Len(Calls) :
    ~Calls[i].countsAgainst
    => \A r \in Statuses \cup {Undefined} :
         LET with == calcStats(u, WithResp(Calls, i, u, r))
             without == calcStats(u, Without(Calls, i))
         IN  /\ with.possible = without.possible
                                  + (IF r \in {"MADE", "SILENT"} THEN Calls[i].points ELSE 0)
             /\ r \notin {"MADE", "SILENT"} => with.earned = without.earned

\* /percent has just scored a user who answered MISSED on a 1-point event
\* that does not count against, the only event: possible 0, earned 0
C11_Witness ==
  /\ reply.kind = "percent"
  /\ Len(Calls) = 1
  /\ ~Calls[1].countsAgainst /\ Calls[1].points = 2
  /\ Resp(Calls[1].attendance, stats.uid) = "MISSED"
  /\ stats.m.possible = 0 /\ stats.m.earned = 0 /\ stats.m.missed = 1

\* what the response r to an event worth p half points earns
EarnedFor(p, r) ==
  IF r = "MADE" THEN p ELSE IF r = "SILENT" THEN Min(1, p) ELSE 0

RECURSIVE SumEarned(_, _, _)
SumEarned(calls, i, u) ==
  IF i > Len(calls) THEN 0
  ELSE EarnedFor(calls[i].points, Resp(calls[i].attendance, u)) + SumEarned(calls, i + 1, u)

(* C12: earned is the sum over the events of the full points for MADE, of   *)
(* min(0.5, points) for SILENT and of nothing for MISSED or no response;    *)
(* one MADE and one MISSED that counts against, a point each, score         *)
(* 1 of 2 = 50%, and SILENT on a half-point event that does not count       *)
(* against scores 0.5 of 0.5 = 100%.                                        *)
C12_EarnedPerResponse ==
  \A u \in Users :
    LET s == calcStats(u, Calls) IN
    /\ s.earned = SumEarned(Calls, 1, u)
    /\ ( /\ Len(Calls) = 2
         /\ \E a, b \in 1..2 :
              /\ a # b
              /\ Calls[a].points = 2 /\ Resp(Calls[a].attendance, u) = "MADE"
              /\ Calls[b].points = 2 /\ Resp(Calls[b].attendance, u) = "MISSED"
              /\ Calls[b].countsAgainst )
       => (s.earned = 2 /\ s.possible = 4 /\ s.pct = [num |-> 50, den |-> 1])
    /\ ( /\ Len(Calls) = 1
         /\ Calls[1].points = 1 /\ ~Calls[1].countsAgainst
         /\ Resp(Calls[1].attendance, u) = "SILENT" )
       => (s.earned = 1 /\ s.possible = 1 /\ s.pct = [num |-> 100, den |-> 1])

\* /percent has just scored a user who answered SILENT on a 1-point event
\* and MADE on another: 1.5 of 2
C12_Witness ==
  /\ reply.kind = "percent"
  /\ Len(Calls) = 2
  /\ \A i \in 1..2 : Calls[i].points = 2
  /\ \E a, b \in 1..2 :
       /\ Resp(Calls[a].attendance, stats.uid) = "SILENT"
       /\ Resp(Calls[b].attendance, stats.uid) = "MADE"
  /\ stats.m.earned = 3 /\ stats.m.possible = 4

(* C13: an event of 0 points changes no field of any user's calcStats       *)
(* result, whatever the response and whether or not it counts against.      *)
C13_ZeroPointsIgnored ==
  \A u \in Users, i \in 1..Len(Calls) :
    Calls[i].points = 0
    => \A r \in Statuses \cup {Undefined} :
         calcStats(u, WithResp(Calls, i, u, r)) = calcStats(u, Without(Calls, i))

\* /percent has just scored a user who answered MADE on a 0-point event
\* that counts against, the only event: every field is 0
C13_Witness ==
  /\ reply.kind = "percent"
  /\ Len(Calls) = 1
  /\ Calls[1].points = 0 /\ Calls[1].countsAgainst
  /\ Resp(Calls[1].attendance, stats.uid) = "MADE"
  /\ stats.m = calcStats(stats.uid, <<>>)

(* C14: 0 <= earned <= possible; pct is between 0 and 100 when possible is  *)
(* positive, and is the number 0 when possible is 0.                        *)
C14_PctBounds ==
  \A u \in Users :
    LET s == calcStats(u, Calls) IN
    /\ 0 <= s.earned /\ s.earned <= s.possible
    /\ s.possible > 0 => (s.pct.den > 0 /\ 0 <= s.pct.num /\ s.pct.num <= 100 * s.pct.den)
    /\ s.possible = 0 => s.pct = [num |-> 0, den |-> 1]

\* /percent has just reported 0% to a user with nothing possible, with an
\* event of non-zero points in the store
C14_Witness ==
  /\ reply.kind = "percent"
  /\ \E i \in 1..Len(Calls) : Calls[i].points # 0
  /\ stats.m.possible = 0
  /\ stats.m.pct = [num |-> 0, den |-> 1]

\* the events of non-zero points
NonZero(calls) == {i \in 1..Len(calls) : calls[i].points # 0}

(* C15: an event of non-zero points increments exactly one of made (MADE),  *)
(* silent (SILENT) and missed (MISSED or no response), whether or not it is *)
(* added to possible; made + silent + missed is the number of such events.  *)
C15_CountsPerEvent ==
  \A u \in Users :
    /\ LET s == calcStats(u, Calls)
       IN  s.made + s.silent + s.missed = Cardinality(NonZero(Calls))
    /\ \A i \in NonZero(Calls), r \in Statuses \cup {Undefined} :
         LET with == calcStats(u, WithResp(Calls, i, u, r))
             without == calcStats(u, Without(Calls, i))
         IN  /\ with.made = without.made + (IF r = "MADE" THEN 1 ELSE 0)
             /\ with.silent = without.silent + (IF r = "SILENT" THEN 1 ELSE 0)
             /\ with.missed = without.missed + (IF r \in {"MISSED", Undefined} THEN 1 ELSE 0)

\* /percent has just scored a user with no response on an event that does
\* not count against: missed 1, possible 0
C15_Witness ==
  /\ reply.kind = "percent"
  /\ Len(Calls) = 1
  /\ ~Calls[1].countsAgainst /\ Calls[1].points # 0
  /\ Resp(Calls[1].attendance, stats.uid) = Undefined
  /\ stats.m.missed = 1 /\ stats.m.possible = 0

\* the events of the current month among those /leaderboard loaded
Period == SelectSeq(board.seen, LAMBDA c : c.monthSort = monthKeySortable(NowT))

\* the users with an entry in the attendance of an event of the period
Responders ==
  {u \in Users : \E i \in 1..Len(Period) : Resp(Period[i].attendance, u) \in Statuses}

(* C16: the leaderboard has exactly one row for each user with an entry in *)
(* the attendance of at least one event of the period, and no other row;   *)
(* with no such user it has no rows.                                       *)
C16_RowsAreResponders ==
  reply.kind \in {"leaderboard", "noboard"}
  => /\ {board.rows[j].uid : j \in 1..Len(board.rows)} = Responders
     /\ \A j, k \in 1..Len(board.rows) : j # k => board.rows[j].uid # board.rows[k].uid
     /\ reply.kind = "noboard" <=> Responders = {}

\* a leaderboard of one row, sent while the reset that removed the other
\* user's responses is still in flight
C16_Witness ==
  /\ reply.kind = "leaderboard"
  /\ Len(board.rows) = 1
  /\ board.seen = Calls
  /\ \E p \in Procs : pc[p] = "reset_reply" /\ changed[p]
  /\ \E i \in 1..Len(Calls) :
       Calls[i].monthSort # monthKeySortable(NowT) /\ Calls[i].attendance # <<>>

\* the attendance keys of the events, event after event
RECURSIVE Flat(_, _)
Flat(calls, i) ==
  IF i > Len(calls) THEN <<>>
  ELSE [k \in 1..Len(calls[i].attendance) |-> calls[i].attendance[k].uid] \o Flat(calls, i + 1)

\* where u first appears among them
FirstSeen(u) ==
  CHOOSE k \in 1..Len(Flat(Period, 1)) :
    /\ Flat(Period, 1)[k] = u
    /\ \A j \in 1..(k - 1) : Flat(Period, 1)[j] # u

(* C17: the rows are in descending order of pct, and rows of equal pct are *)
(* in the order in which their users first appear in the period's events   *)
(* (store order) and their attendance keys (insertion order).              *)
C17_RankedStable ==
  reply.kind = "leaderboard"
  => \A j, k \in 1..Len(board.rows) :
       j < k =>
         /\ ~PctLess(board.rows[j].pct, board.rows[k].pct)
         /\ board.rows[j].pct = board.rows[k].pct
            => FirstSeen(board.rows[j].uid) < FirstSeen(board.rows[k].uid)

\* a leaderboard of two rows of equal pct, u2 (seen first) ahead of u1
C17_Witness ==
  /\ reply.kind = "leaderboard"
  /\ Len(board.rows) = 2
  /\ board.rows[1].pct = board.rows[2].pct
  /\ board.rows[1].uid = "u2"

\* an event without its responses: the fields /call gave it
Defn(c) == [c EXCEPT !.attendance = <<>>]

(* C18: after /resetpercent by u no stored event has an attendance entry   *)
(* for u, while the other users' entries, the events and their fields and  *)
(* nextId are what they were.                                              *)
C18_ResetFrame ==
  [][ served' # served =>
        \A p \in Procs, u \in Users, ok \in BOOLEAN :
          ResetPercent(p, u, ok)
          => LET old == Store(disk)
                 new == Store(disk')
             IN  /\ new.nextId = old.nextId
                 /\ Len(new.calls) = Len(old.calls)
                 /\ \A i \in 1..Len(new.calls) :
                      Resp(new.calls[i].attendance, u) = Undefined
                 /\ \A i \in 1..Len(old.calls) :
                      /\ i <= Len(new.calls)
                      /\ Defn(new.calls[i]) = Defn(old.calls[i])
                      /\ \A v \in Users \ {u} :
                           Resp(new.calls[i].attendance, v) = Resp(old.calls[i].attendance, v)
    ]_vars

\* the pcs of the handlers that have written the store and not yet ended
Writing == {"btn_update", "call_fetch", "call_reply", "call_send", "reset_reply"}

C20_ResponseFrame ==
  [][ \A p \in Procs :
        (pc[p] = "idle" /\ pc'[p] = "btn_update")
        => LET old == Store(disk)
               new == Store(disk')
               u == req'[p].uid
               e == req'[p].id
           IN  /\ new.nextId = old.nextId
               /\ Len(new.calls) = Len(old.calls)
               /\ \A i \in 1..Len(old.calls) :
                    /\ Defn(new.calls[i]) = Defn(old.calls[i])
                    /\ old.calls[i].id # e
                       => new.calls[i].attendance = old.calls[i].attendance
                    /\ old.calls[i].id = e
                       => /\ Resp(new.calls[i].attendance, u) = req'[p].status
                          /\ DeleteAttendance(new.calls[i].attendance, u)
                               = DeleteAttendance(old.calls[i].attendance, u)
    ]_vars

\* a response of one user has just been stored on an event that holds the
\* other user's response, beside another event that holds responses too
C20_Witness ==
  /\ reply = [kind |-> "update", changed |-> TRUE]
  /\ Len(Calls) = 2
  /\ \E i, j \in 1..2 :
       /\ i # j
       /\ Len(Calls[i].attendance) = 2
       /\ Calls[j].attendance # <<>>

(* C21: a /call appends one event with an empty attendance map and the     *)
(* previous nextId as its id, advances nextId by one and leaves the events *)
(* stored before, their attendance included, as they were.                 *)
C21_CreateFrame ==
  [][ \A p \in Procs :
        (pc[p] = "idle" /\ pc'[p] = "call_fetch")
        => LET old == Store(disk)
               new == Store(disk')
           IN  /\ new.nextId = old.nextId + 1
               /\ Len(new.calls) = Len(old.calls) + 1
               /\ new.calls[Len(new.calls)].id = old.nextId
               /\ new.calls[Len(new.calls)].attendance = <<>>
               /\ \A i \in 1..Len(old.calls) :
                    i <= Len(new.calls) /\ new.calls[i] = old.calls[i]
    ]_vars

(* C22: while the reads of the store succeed, no create, record-response   *)
(* or reset removes a stored event: the set of stored event ids only       *)
(* grows.                                                                  *)
C22_EventsNeverRemoved ==
  [][ StoredIds(disk) \subseteq StoredIds(disk') ]_vars

\* a reset that removed responses has been saved after a create and a
\* record-response, and the event is still stored
C22_Witness ==
  /\ \E p \in Procs : pc[p] = "reset_reply" /\ changed[p]
  /\ StoredIds(disk) # {}
  /\ \A i \in 1..Len(Calls) : Calls[i].attendance = <<>>

\* what /percent reports for the month to each user, and the rows of
\* /leaderboard, from the events calls
Monthly(calls) ==
  LET mc == MonthCalls(calls, NowT)
  IN  [scores |-> [u \in Users |-> calcStats(u, mc)],
       rows |-> SortRows(<<>>, Rows(Discover(<<>>, mc, 1), mc), 1)]

\* the stored events of another month than the current one
OtherMonth == {i \in 1..Len(Calls) : Calls[i].monthSort # monthKeySortable(NowT)}

(* C23: the monthly result of /percent and the leaderboard are the same    *)
(* with and without an event of another month, and whatever the responses  *)
(* recorded on it or reset from it; what the two commands send is what the *)
(* events of the current month alone give.                                 *)
C23_OtherMonthsIgnored ==
  /\ \A i \in OtherMonth :
       /\ Monthly(Without(Calls, i)) = Monthly(Calls)
       /\ \A u \in Users, r \in Statuses \cup {Undefined} :
            Monthly(WithResp(Calls, i, u, r)) = Monthly(Calls)
  /\ \A i \in OtherMonth :
       /\ reply.kind = "percent"
          => stats.m = Monthly(Without(Calls, i)).scores[stats.uid]
       /\ reply.kind \in {"leaderboard", "noboard"}
          => board.rows = Monthly(Without(Calls, i)).rows

\* /percent has just scored a user who answered on an event of this month
\* and on one of next month that counts against: only the first is counted
C23_Witness ==
  /\ reply.kind = "percent"
  /\ Len(Calls) = 2
  /\ Cardinality(OtherMonth) = 1
  /\ \A i \in 1..2 : Resp(Calls[i].attendance, stats.uid) = "MADE"
  /\ stats.m.made = 1 /\ stats.m.possible = stats.m.earned

\* the replies of the commands that only report
Reports == {"percent", "leaderboard", "noboard", "rollcall", "norecord"}

\* the pcs of their handlers while the reply is on its way
Reporting == {"percent_reply", "board_reply", "roll_reply"}

(* C24: /percent, /leaderboard and /rollcall never write the store: the    *)
(* file is the same after the step that computes the report and after the  *)
(* step that ends the handler.                                             *)
C24_ReportsDoNotWrite ==
  [][ /\ (served' # served /\ reply'.kind \in Reports) => disk' = disk
      /\ \A p \in Procs :
           (pc[p] \in Reporting /\ pc'[p] = "idle") => disk' = disk
    ]_vars

\* /rollcall has just listed the one user who answered MADE on a stored
\* event
C24_Witness ==
  /\ reply.kind = "rollcall"
  /\ Len(roll.made) = 1
  /\ \E i \in 1..Len(Calls) :
       Calls[i].cad = roll.cad /\ Resp(Calls[i].attendance, roll.made[1]) = "MADE"

\* the number of attendance entries in the store of the file
RECURSIVE Entries(_, _)
Entries(calls, i) ==
  IF i > Len(calls) THEN 0 ELSE Len(calls[i].attendance) + Entries(calls, i + 1)

(* C25: every value in an attendance map of the store is MADE, SILENT or   *)
(* MISSED; a button click that is stored makes one upsert, of the state in *)
(* the clicked button's identifier, and stores no other value.             *)
C25_OnlyButtonStates ==
  [][ /\ \A i \in 1..Len(Store(disk').calls) :
           \A k \in 1..Len(Store(disk').calls[i].attendance) :
             Store(disk').calls[i].attendance[k].st \in {"MADE", "SILENT", "MISSED"}
      /\ \A p \in Procs :
           (pc[p] = "idle" /\ pc'[p] = "btn_update")
           => /\ RespOn(disk', req'[p].id, req'[p].uid) = req'[p].status
              /\ Entries(Store(disk').calls, 1) - Entries(Store(disk).calls, 1)
                   = (IF RespOn(disk, req'[p].id, req'[p].uid) = Undefined THEN 1 ELSE 0)
    ]_vars

\* a click has just stored MISSED for one user on an event that holds
\* another state for the other user
C25_Witness ==
  /\ reply.kind = "update"
  /\ \E p \in Procs : pc[p] = "btn_update" /\ req[p].status = "MISSED"
  /\ \E i \in 1..Len(Calls) :
       /\ Len(Calls[i].attendance) = 2
       /\ Calls[i].attendance[1].st # "MISSED"
       /\ Calls[i].attendance[2].st = "MISSED"

(* C26: the quarter key of a stored event names the quarter, of the year   *)
(* of its month key, that holds the month of its month key; so for any     *)
(* current instant the events /percent counts for the month are among      *)
(* those it counts for the quarter.                                        *)
C26_QuarterHoldsMonth ==
  /\ \A i \in 1..Len(Calls) :
       /\ Calls[i].quarter.yy = Calls[i].monthSort.yy
       /\ Calls[i].quarter.q = ((Calls[i].monthSort.mm - 1) \div 3) + 1
  /\ \A now \in Instants :
       \A k \in 1..Len(MonthCalls(Calls, now)) :
         \E j \in 1..Len(QuarterCalls(Calls, now)) :
           QuarterCalls(Calls, now)[j] = MonthCalls(Calls, now)[k]
  /\ reply.kind = "percent"
     => /\ stats.m.possible <= stats.q.possible
        /\ stats.m.made <= stats.q.made
        /\ stats.m.missed <= stats.q.missed

\* /percent has just been sent with an event stored that is dated in the
\* first hours of January of BaseYear in UTC: December, Q4, of the year
\* before
C26_Witness ==
  /\ reply.kind = "percent"
  /\ Len(Calls) = 1
  /\ Calls[1].monthSort = [yy |-> BaseYear - 1, mm |-> 12]
  /\ Calls[1].quarter = [yy |-> BaseYear - 1, q |-> 4]
  /\ stats.q.possible = 0

\* the pct of u with the response r on the i-th stored event
PctWith(i, u, r) == calcStats(u, WithResp(Calls, i, u, r)).pct

(* C27: with the other responses fixed, MADE instead of SILENT on an event *)
(* never lowers the user's pct, and on an event that counts against,       *)
(* SILENT or MADE instead of MISSED or no response never lowers it.        *)
C27_PctMonotone ==
  \A u \in Users, i \in 1..Len(Calls) :
    /\ ~PctLess(PctWith(i, u, "MADE"), PctWith(i, u, "SILENT"))
    /\ Calls[i].countsAgainst
       => \A lo \in {Undefined, "MISSED"}, hi \in {"SILENT", "MADE"} :
            ~PctLess(PctWith(i, u, hi), PctWith(i, u, lo))

\* /percent has just scored 75% for a user with SILENT on a 1-point event
\* that counts against and MADE on another: MISSED there would give 50%
C27_Witness ==
  /\ reply.kind = "percent"
  /\ Len(Calls) = 2
  /\ \E i, j \in 1..2 :
       /\ i # j
       /\ Calls[i].countsAgainst /\ Calls[i].points = 2
       /\ Resp(Calls[i].attendance, stats.uid) = "SILENT"
       /\ Calls[j].points = 2
       /\ Resp(Calls[j].attendance, stats.uid) = "MADE"
       /\ PctWith(i, stats.uid, "MISSED") = [num |-> 50, den |-> 1]
  /\ stats.m.pct = [num |-> 75, den |-> 1]

====
